---- MODULE Spec2Model ----
(***************************************************************************)
(* Model of github.com/HyperCodec/vector-go (vector.go).                   *)
(*                                                                         *)
(* A Vector[T] is the struct {data []T; len, capacity, allocAmount int}.   *)
(* A Go slice is modelled as a record [array, len]: `array` is the whole   *)
(* backing array (1-based here, so Go's s[i] is array[i+1]), `len` is      *)
(* len(s), and cap(s) is Len(array).  Every method is a pure operator from *)
(* a vector record to an outcome record [v, err, panic, allocated, val],   *)
(* and one action per method installs the outcome in the state.            *)
(***************************************************************************)
EXTENDS Integers, Sequences, FiniteSets, TLC

\* ---- bounds of the model ------------------------------------------------
MaxCap == 3
MaxVal == 1
MaxAlloc == 2
MaxInitLen == 2

\* ---- program constants --------------------------------------------------
OutOfBounds == "index out of bounds"
\* the source text quotes allocAmount in backquotes
InvalidAllocAmount == "invalid allocAmount"
CannotAddAmount == "cannot add this amount"
Unreachable == "unreachable"
IndexOutOfRange == "runtime error: index out of range"
SliceOutOfRange == "runtime error: slice bounds out of range"
MakeOutOfRange == "runtime error: makeslice: len out of range"
Nil == "nil"
NoPanic == "none"
Zero == 0

\* ---- input domains ------------------------------------------------------
Elem == 0..MaxVal
IndexArgs == -1..(MaxCap + 1)
AmountArgs == -1..MaxAlloc
CapacityArgs == 0..MaxInitLen
SliceArgs == UNION {[1..n -> Elem] : n \in 0..MaxInitLen}
\* destination buffers of Copy: every slot holds MaxVal before the call
DstArgs == {<<>>, <<MaxVal>>, <<MaxVal, MaxVal>>}

\* data, len, capacity, allocAmount: the fields of the vector; op, ret, pre:
\* the last call, what it returned and the vector it was called on; ref: the
\* slice or pointer the caller holds from Data(), Get() or as Copy's dst
VARIABLES data, len, capacity, allocAmount, op, ret, pre, ref

vars == <<data, len, capacity, allocAmount, op, ret, pre, ref>>

\* ---- Go slices ----------------------------------------------------------
Min(a, b) == IF a <= b THEN a ELSE b

\* []T{e1, ..., en}: a slice whose length and capacity are both n
SliceOf(s) == [array |-> s, len |-> Len(s)]

\* make([]T, n) for n >= 0
MakeSlice(n) == [array |-> [k \in 1..n |-> Zero], len |-> n]

\* s[i] is inside the slice
InRange(s, i) == 0 <= i /\ i < s.len

\* s[i]
At(s, i) == s.array[i + 1]

\* s[i] = x
Store(s, i, x) == [s EXCEPT !.array[i + 1] = x]

\* the elements s[0..len(s)-1] as a sequence
Elems(s) == SubSeq(s.array, 1, s.len)

\* the builtin copy(dst, src): number of elements written
CopyCount(dst, src) == Min(dst.len, src.len)

\* the builtin copy(dst, src): dst afterwards
copy(dst, src) ==
    [dst EXCEPT !.array = [k \in 1..Len(dst.array) |->
        IF k <= CopyCount(dst, src) THEN src.array[k] ELSE dst.array[k]]]

\* s[:hi]
SliceTo(s, hi) == [s EXCEPT !.len = hi]

\* slices.Delete gone wrong: cuts the tail off instead of closing the gap
SlicesDeleteTruncates(s, i, j) ==
    [array |-> [k \in 1..Len(s.array) |->
                  IF k <= s.len - (j - i) THEN s.array[k]
                  ELSE IF k <= s.len THEN Zero
                  ELSE s.array[k]],
     len |-> s.len - (j - i)]

\* slices.Delete(s, i, j): shifts s[j:] down to i, zeroes the vacated tail,
\* returns s[:len(s)-(j-i)] over the same backing array
SlicesDelete(s, i, j) ==
    [array |-> [k \in 1..Len(s.array) |->
                  IF k <= i THEN s.array[k]
                  ELSE IF k <= s.len - (j - i) THEN s.array[k + (j - i)]
                  ELSE IF k <= s.len THEN Zero
                  ELSE s.array[k]],
     len |-> s.len - (j - i)]

\* ---- outcomes -----------------------------------------------------------
Outcome(v, err, panic, allocated, val) ==
    [v |-> v, err |-> err, panic |-> panic, allocated |-> allocated, val |-> val]

Ok(v) == Outcome(v, Nil, NoPanic, FALSE, Zero)

Fail(v, err) == Outcome(v, err, NoPanic, FALSE, Zero)

Panic(v, msg) == Outcome(v, Nil, msg, FALSE, Zero)

\* ---- constructors -------------------------------------------------------
NoVector == [data |-> SliceOf(<<>>), len |-> 0, capacity |-> 0, allocAmount |-> 0]

FromSlice(slice, a) ==
    IF a <= 0 THEN Panic(NoVector, InvalidAllocAmount)
    ELSE Ok([data |-> slice, len |-> slice.len, capacity |-> slice.len,
             allocAmount |-> a])

Empty(a) ==
    IF a <= 0 THEN Panic(NoVector, InvalidAllocAmount)
    ELSE Ok([data |-> SliceOf(<<>>), len |-> 0, capacity |-> 0, allocAmount |-> a])

\* EmptyWithCapacity gone wrong: the new slots count as elements
EmptyWithCapacityFull(c, a) ==
    IF a <= 0 THEN Panic(NoVector, InvalidAllocAmount)
    ELSE IF c < 0 THEN Panic(NoVector, MakeOutOfRange)
    ELSE Ok([data |-> MakeSlice(c), len |-> c, capacity |-> c, allocAmount |-> a])

EmptyWithCapacity(c, a) ==
    IF a <= 0 THEN Panic(NoVector, InvalidAllocAmount)
    ELSE IF c < 0 THEN Panic(NoVector, MakeOutOfRange)
    ELSE Ok([data |-> MakeSlice(c), len |-> 0, capacity |-> c, allocAmount |-> a])

\* ---- methods ------------------------------------------------------------
Vec == [data |-> data, len |-> len, capacity |-> capacity, allocAmount |-> allocAmount]

\* IsInBounds gone wrong: the lower bound is not checked
IsInBoundsNoLower(v, index) == index < v.len

IsInBounds(v, index) == index >= 0 /\ index < v.len

boundsCheck(v, index) == IF ~IsInBounds(v, index) THEN OutOfBounds ELSE Nil

\* SetAllocAmount gone wrong: zero is accepted
SetAllocAmountAcceptsZero(v, newVal) ==
    IF newVal < 0 THEN Fail(v, InvalidAllocAmount)
    ELSE Ok([v EXCEPT !.allocAmount = newVal])

SetAllocAmount(v, newVal) ==
    IF newVal <= 0 THEN Fail(v, InvalidAllocAmount)
    ELSE Ok([v EXCEPT !.allocAmount = newVal])

\* AddCapacity gone wrong: the new slice has amount slots
AddCapacityAllocatesAmount(v, amount) ==
    IF amount <= 0 THEN Fail(v, CannotAddAmount)
    ELSE LET v1 == [v EXCEPT !.capacity = v.capacity + amount]
         IN  IF v1.capacity < 0 THEN Panic(v1, MakeOutOfRange)
             ELSE Ok([v1 EXCEPT !.data = copy(MakeSlice(amount), v.data)])

\* AddCapacity gone wrong: zero is accepted
AddCapacityAcceptsZero(v, amount) ==
    IF amount < 0 THEN Fail(v, CannotAddAmount)
    ELSE LET v1 == [v EXCEPT !.capacity = v.capacity + amount]
         IN  IF v1.capacity < 0 THEN Panic(v1, MakeOutOfRange)
             ELSE Ok([v1 EXCEPT !.data = copy(MakeSlice(v1.capacity), v.data)])

\* AddCapacity gone wrong: the old elements are not copied over
AddCapacityNoCopy(v, amount) ==
    IF amount <= 0 THEN Fail(v, CannotAddAmount)
    ELSE LET v1 == [v EXCEPT !.capacity = v.capacity + amount]
         IN  IF v1.capacity < 0 THEN Panic(v1, MakeOutOfRange)
             ELSE Ok([v1 EXCEPT !.data = MakeSlice(v1.capacity)])

AddCapacity(v, amount) ==
    IF amount <= 0 THEN Fail(v, CannotAddAmount)
    ELSE LET v1 == [v EXCEPT !.capacity = v.capacity + amount]
         IN  IF v1.capacity < 0 THEN Panic(v1, MakeOutOfRange)
             ELSE Ok([v1 EXCEPT !.data = copy(MakeSlice(v1.capacity), v.data)])

\* PushBack gone wrong: grows by one slot instead of allocAmount
PushBackGrowsByOne(v, val) ==
    LET allocated == v.len = v.capacity
        grown == IF allocated THEN AddCapacity(v, 1) ELSE Ok(v)
        v1 == grown.v
    IN  IF grown.panic # NoPanic THEN grown
        ELSE IF ~InRange(v1.data, v1.len) THEN Panic(v1, IndexOutOfRange)
        ELSE Outcome([v1 EXCEPT !.data = Store(v1.data, v1.len, val),
                                !.len = v1.len + 1],
                     Nil, NoPanic, allocated, Zero)

PushBack(v, val) ==
    LET allocated == v.len = v.capacity
        grown == IF allocated THEN AddCapacity(v, v.allocAmount) ELSE Ok(v)
        v1 == grown.v
    IN  IF grown.panic # NoPanic THEN grown
        ELSE IF ~InRange(v1.data, v1.len) THEN Panic(v1, IndexOutOfRange)
        ELSE Outcome([v1 EXCEPT !.data = Store(v1.data, v1.len, val),
                                !.len = v1.len + 1],
                     Nil, NoPanic, allocated, Zero)

\* the loop of Insert gone wrong: i also advances when val is placed
RECURSIVE InsertLoopSkips(_, _, _, _, _, _, _)
InsertLoopSkips(old, newData, n, index, val, j, i) ==
    IF ~(j < n) THEN [panic |-> NoPanic, data |-> newData]
    ELSE IF ~InRange(newData, j) THEN [panic |-> IndexOutOfRange, data |-> newData]
    ELSE IF j = index
         THEN InsertLoopSkips(old, Store(newData, j, val), n, index, val, j + 1, i + 1)
    ELSE IF ~InRange(old, i) THEN [panic |-> IndexOutOfRange, data |-> newData]
    ELSE InsertLoopSkips(old, Store(newData, j, At(old, i)), n, index, val, j + 1, i + 1)

\* the loop of Insert from iteration j on, reading old[i]; the outcome is
\* the filled newData, or a panic when an index leaves its slice
RECURSIVE InsertLoop(_, _, _, _, _, _, _)
InsertLoop(old, newData, n, index, val, j, i) ==
    IF ~(j < n) THEN [panic |-> NoPanic, data |-> newData]
    ELSE IF ~InRange(newData, j) THEN [panic |-> IndexOutOfRange, data |-> newData]
    ELSE IF j = index
         THEN InsertLoop(old, Store(newData, j, val), n, index, val, j + 1, i)
    ELSE IF ~InRange(old, i) THEN [panic |-> IndexOutOfRange, data |-> newData]
    ELSE InsertLoop(old, Store(newData, j, At(old, i)), n, index, val, j + 1, i + 1)

Insert(v, index, val) ==
    IF boundsCheck(v, index) # Nil THEN Fail(v, boundsCheck(v, index))
    ELSE
    LET allocated == v.len = v.capacity
        grown == IF allocated THEN AddCapacity(v, v.allocAmount) ELSE Ok(v)
        v1 == [grown.v EXCEPT !.len = grown.v.len + 1]
        loop == InsertLoop(v1.data, MakeSlice(v1.capacity), v1.len, index, val, 0, 0)
    IN  IF grown.panic # NoPanic THEN grown
        ELSE IF v1.capacity < 0 THEN Panic(v1, MakeOutOfRange)
        ELSE IF loop.panic # NoPanic THEN Panic(v1, loop.panic)
        ELSE Outcome([v1 EXCEPT !.data = loop.data], Nil, NoPanic, allocated, Zero)

PushFront(v, val) ==
    LET r == Insert(v, 0, val)
    IN  IF r.panic = NoPanic /\ r.err # Nil THEN Panic(r.v, Unreachable)
        ELSE r

Get(v, index) ==
    IF boundsCheck(v, index) # Nil THEN Fail(v, boundsCheck(v, index))
    ELSE IF ~InRange(v.data, index) THEN Panic(v, IndexOutOfRange)
    ELSE Outcome(v, Nil, NoPanic, FALSE, At(v.data, index))

\* Set gone wrong: always writes the first slot
SetStoresAtZero(v, index, val) ==
    IF boundsCheck(v, index) # Nil THEN Fail(v, boundsCheck(v, index))
    ELSE IF ~InRange(v.data, index) THEN Panic(v, IndexOutOfRange)
    ELSE Ok([v EXCEPT !.data = Store(v.data, 0, val)])

Set(v, index, val) ==
    IF boundsCheck(v, index) # Nil THEN Fail(v, boundsCheck(v, index))
    ELSE IF ~InRange(v.data, index) THEN Panic(v, IndexOutOfRange)
    ELSE Ok([v EXCEPT !.data = Store(v.data, index, val)])

\* Remove gone wrong: len is not decremented
RemoveKeepsLen(v, index) ==
    IF boundsCheck(v, index) # Nil THEN Fail(v, boundsCheck(v, index))
    ELSE IF ~InRange(v.data, index) THEN Panic(v, IndexOutOfRange)
    ELSE Outcome([v EXCEPT !.data = SlicesDelete(v.data, index, index + 1),
                           !.capacity = v.capacity - 1],
                 Nil, NoPanic, FALSE, At(v.data, index))

\* Remove gone wrong: capacity is not decremented
RemoveKeepsCapacity(v, index) ==
    IF boundsCheck(v, index) # Nil THEN Fail(v, boundsCheck(v, index))
    ELSE IF ~InRange(v.data, index) THEN Panic(v, IndexOutOfRange)
    ELSE Outcome([v EXCEPT !.data = SlicesDelete(v.data, index, index + 1),
                           !.len = v.len - 1],
                 Nil, NoPanic, FALSE, At(v.data, index))

Remove(v, index) ==
    IF boundsCheck(v, index) # Nil THEN Fail(v, boundsCheck(v, index))
    ELSE IF ~InRange(v.data, index) THEN Panic(v, IndexOutOfRange)
    ELSE Outcome([v EXCEPT !.data = SlicesDelete(v.data, index, index + 1),
                           !.capacity = v.capacity - 1,
                           !.len = v.len - 1],
                 Nil, NoPanic, FALSE, At(v.data, index))

\* RemoveUnchecked: Remove without the bounds check; v.data[index] panics
\* when index is outside the slice v.data
RemoveUnchecked(v, index) ==
    IF ~InRange(v.data, index) THEN Panic(v, IndexOutOfRange)
    ELSE Outcome([v EXCEPT !.data = SlicesDelete(v.data, index, index + 1),
                           !.capacity = v.capacity - 1,
                           !.len = v.len - 1],
                 Nil, NoPanic, FALSE, At(v.data, index))

GetUnchecked(v, index) ==
    IF ~InRange(v.data, index) THEN Panic(v, IndexOutOfRange)
    ELSE Outcome(v, Nil, NoPanic, FALSE, At(v.data, index))

SetUnchecked(v, index, val) ==
    IF ~InRange(v.data, index) THEN Panic(v, IndexOutOfRange)
    ELSE Ok([v EXCEPT !.data = Store(v.data, index, val)])

\* the result of Find when no element matches
NotFound == -1

\* the loop of Find gone wrong: it ranges over the whole slice v.data
RECURSIVE FindLoopWholeSlice(_, _, _)
FindLoopWholeSlice(v, val, i) ==
    IF ~(i < v.data.len) THEN Outcome(v, Nil, NoPanic, FALSE, NotFound)
    ELSE IF At(v.data, i) = val THEN Outcome(v, Nil, NoPanic, FALSE, i)
    ELSE FindLoopWholeSlice(v, val, i + 1)

\* the loop of Find from iteration i on; the result value is the index
RECURSIVE FindLoop(_, _, _)
FindLoop(v, val, i) ==
    IF ~(i < v.len) THEN Outcome(v, Nil, NoPanic, FALSE, NotFound)
    ELSE IF ~InRange(v.data, i) THEN Panic(v, IndexOutOfRange)
    ELSE IF At(v.data, i) = val THEN Outcome(v, Nil, NoPanic, FALSE, i)
    ELSE FindLoop(v, val, i + 1)

Find(v, val) == FindLoop(v, val, 0)

\* the loop of Contains from iteration i on
RECURSIVE ContainsLoop(_, _, _)
ContainsLoop(v, val, i) ==
    IF ~(i < v.len) THEN [panic |-> NoPanic, found |-> FALSE]
    ELSE IF ~InRange(v.data, i) THEN [panic |-> IndexOutOfRange, found |-> FALSE]
    ELSE IF At(v.data, i) = val THEN [panic |-> NoPanic, found |-> TRUE]
    ELSE ContainsLoop(v, val, i + 1)

Contains(v, val) == ContainsLoop(v, val, 0)

\* Data(): v.data[:v.len]
Data(v) ==
    IF v.len < 0 \/ v.len > Len(v.data.array) THEN Panic(v, SliceOutOfRange)
    ELSE Ok(v)

\* Copy(dst): copy(dst, v.data[:v.len]); the count is the result value
Copy(v, dst) ==
    IF Data(v).panic # NoPanic THEN Data(v)
    ELSE Outcome(v, Nil, NoPanic, FALSE, CopyCount(dst, SliceTo(v.data, v.len)))

\* Copy gone wrong: the source is all of v.data, spare slots included
CopyDstWholeSlice(v, dst) ==
    IF Data(v).panic # NoPanic THEN dst
    ELSE copy(dst, v.data)

\* dst after Copy(dst)
CopyDst(v, dst) ==
    IF Data(v).panic # NoPanic THEN dst
    ELSE copy(dst, SliceTo(v.data, v.len))

\* ---- what the caller holds ----------------------------------------------
\* A held reference is a window of len slots at offset off.  While shared it
\* is a window on the backing array of v.data (array is then not used);
\* otherwise it has a backing array of its own, whose contents are in array.
NoRef == [kind |-> "none", shared |-> FALSE, off |-> 0, len |-> 0, array |-> <<>>]

\* Data() gone wrong: it returns a copy of the elements
DataViewCloned(v) == [kind |-> "view", shared |-> FALSE, off |-> 0,
                      len |-> v.len, array |-> v.data.array]

\* Data() returns v.data[:v.len]: the same backing array
DataView(v) == [kind |-> "view", shared |-> TRUE, off |-> 0,
                len |-> v.len, array |-> <<>>]

\* Get(index) returns &v.data[index]: one slot of the same backing array
GetPointer(v, index) == [kind |-> "ptr", shared |-> TRUE, off |-> index,
                         len |-> 1, array |-> <<>>]

\* Copy(dst) writes into the backing array of dst, which stays the caller's
CopyView(v, dst) == [kind |-> "dst", shared |-> FALSE, off |-> 0,
                     len |-> dst.len, array |-> CopyDst(v, dst).array]

\* the call assigned a newly made slice to v.data
NewBacking(name, r) ==
    CASE name = "AddCapacity" -> r.err = Nil /\ r.panic = NoPanic
      [] name = "PushBack" -> r.allocated
      [] name \in {"Insert", "PushFront"} ->
            (r.err = Nil /\ r.panic = NoPanic) \/ r.allocated
      [] OTHER -> FALSE

\* the call grew the vector, inserted or removed: Data()'s comment tells the
\* caller not to use what it holds after that
Invalidates(name, r) ==
    CASE name = "AddCapacity" -> r.err = Nil /\ r.panic = NoPanic
      [] name = "PushBack" -> r.allocated
      [] name \in {"Insert", "PushFront", "Remove", "RemoveUnchecked"} ->
            r.err = Nil /\ r.panic = NoPanic
      [] OTHER -> FALSE

\* the held reference after the call name with outcome r on vector v: the
\* caller lets go of a window on v.data once the call invalidates it; a
\* window left on a replaced backing array keeps the old contents
Reheld(h, v, name, r) ==
    IF ~h.shared THEN h
    ELSE IF Invalidates(name, r) THEN NoRef
    ELSE IF NewBacking(name, r)
         THEN [h EXCEPT !.shared = FALSE, !.array = v.data.array]
    ELSE h

\* ---- the state machine --------------------------------------------------
\* the live elements: what Data() shows
Live(v) == SubSeq(v.data.array, 1, v.len)

\* the call leaves the vector as outcome r says; ret records what it returned
\* and pre the vector it was called on
Install(r) ==
    /\ data' = r.v.data
    /\ len' = r.v.len
    /\ capacity' = r.v.capacity
    /\ allocAmount' = r.v.allocAmount
    /\ ret' = [err |-> r.err, panic |-> r.panic, allocated |-> r.allocated,
               val |-> r.val]
    /\ pre' = Vec

Constructed(r) ==
    /\ r.panic = NoPanic
    /\ data = r.v.data
    /\ len = r.v.len
    /\ capacity = r.v.capacity
    /\ allocAmount = r.v.allocAmount
    /\ ret = [err |-> r.err, panic |-> r.panic, allocated |-> r.allocated,
              val |-> r.val]
    /\ pre = r.v
    /\ ref = NoRef

Init ==
    \/ \E a \in AmountArgs :
          /\ op = [name |-> "Empty", allocAmount |-> a]
          /\ Constructed(Empty(a))
    \/ \E c \in CapacityArgs, a \in AmountArgs :
          /\ op = [name |-> "EmptyWithCapacity", capacity |-> c, allocAmount |-> a]
          /\ Constructed(EmptyWithCapacity(c, a))
    \/ \E s \in SliceArgs, a \in AmountArgs :
          /\ op = [name |-> "FromSlice", slice |-> s, allocAmount |-> a]
          /\ Constructed(FromSlice(SliceOf(s), a))

\* growth keeps the capacity within the bound of the model
Fits(amount) == capacity + amount <= MaxCap

CallSetAllocAmount ==
    \E newVal \in AmountArgs :
        /\ op' = [name |-> "SetAllocAmount", newVal |-> newVal]
        /\ Install(SetAllocAmount(Vec, newVal))
        /\ ref' = Reheld(ref, Vec, "SetAllocAmount", SetAllocAmount(Vec, newVal))

CallAddCapacity ==
    \E amount \in AmountArgs :
        /\ Fits(amount)
        /\ op' = [name |-> "AddCapacity", amount |-> amount]
        /\ Install(AddCapacity(Vec, amount))
        /\ ref' = Reheld(ref, Vec, "AddCapacity", AddCapacity(Vec, amount))

CallPushBack ==
    \E val \in Elem :
        /\ Fits(allocAmount)
        /\ op' = [name |-> "PushBack", val |-> val]
        /\ Install(PushBack(Vec, val))
        /\ ref' = Reheld(ref, Vec, "PushBack", PushBack(Vec, val))

CallPushFront ==
    \E val \in Elem :
        /\ Fits(allocAmount)
        /\ op' = [name |-> "PushFront", val |-> val]
        /\ Install(PushFront(Vec, val))
        /\ ref' = Reheld(ref, Vec, "PushFront", PushFront(Vec, val))

CallInsert ==
    \E index \in IndexArgs, val \in Elem :
        /\ Fits(allocAmount)
        /\ op' = [name |-> "Insert", index |-> index, val |-> val]
        /\ Install(Insert(Vec, index, val))
        /\ ref' = Reheld(ref, Vec, "Insert", Insert(Vec, index, val))

CallGet ==
    \E index \in IndexArgs :
        /\ op' = [name |-> "Get", index |-> index]
        /\ Install(Get(Vec, index))
        /\ ref' = Reheld(ref, Vec, "Get", Get(Vec, index))

CallSet ==
    \E index \in IndexArgs, val \in Elem :
        /\ op' = [name |-> "Set", index |-> index, val |-> val]
        /\ Install(Set(Vec, index, val))
        /\ ref' = Reheld(ref, Vec, "Set", Set(Vec, index, val))

CallRemove ==
    \E index \in IndexArgs :
        /\ op' = [name |-> "Remove", index |-> index]
        /\ Install(Remove(Vec, index))
        /\ ref' = Reheld(ref, Vec, "Remove", Remove(Vec, index))

CallData ==
    /\ op' = [name |-> "Data"]
    /\ Install(Data(Vec))
    /\ ref' = Reheld(ref, Vec, "Data", Data(Vec))

CallCopy ==
    \E s \in DstArgs :
        /\ op' = [name |-> "Copy", dst |-> s,
                  written |-> Elems(CopyDst(Vec, SliceOf(s)))]
        /\ Install(Copy(Vec, SliceOf(s)))
        /\ ref' = Reheld(ref, Vec, "Copy", Copy(Vec, SliceOf(s)))

Next ==
    \/ CallSetAllocAmount
    \/ CallAddCapacity
    \/ CallPushBack
    \/ CallPushFront
    \/ CallInsert
    \/ CallGet
    \/ CallSet
    \/ CallRemove
    \/ CallData
    \/ CallCopy

Spec == Init /\ [][Next]_vars

\* ---- the caller keeps what Data, Get and Copy hand out --------------------
\* the slots the held reference shows
RefElems(h) ==
    [k \in 1..h.len |-> IF h.shared THEN data.array[h.off + k]
                        ELSE h.array[h.off + k]]

HoldData ==
    /\ op' = [name |-> "Data"]
    /\ Install(Data(Vec))
    /\ ref' = IF Data(Vec).panic = NoPanic THEN DataView(Vec) ELSE ref

HoldGet ==
    \E index \in IndexArgs :
        /\ op' = [name |-> "Get", index |-> index]
        /\ Install(Get(Vec, index))
        /\ ref' = IF Get(Vec, index).err = Nil /\ Get(Vec, index).panic = NoPanic
                  THEN GetPointer(Vec, index) ELSE ref

HoldCopy ==
    \E s \in DstArgs :
        /\ op' = [name |-> "Copy", dst |-> s,
                  written |-> Elems(CopyDst(Vec, SliceOf(s)))]
        /\ Install(Copy(Vec, SliceOf(s)))
        /\ ref' = IF Copy(Vec, SliceOf(s)).panic = NoPanic
                  THEN CopyView(Vec, SliceOf(s)) ELSE ref

\* the caller stores val at slot index of what it holds: slice[index] = val,
\* or *ptr = val
WriteRef ==
    \E index \in 0..(ref.len - 1), val \in Elem :
        /\ ref.kind # "none"
        /\ op' = [name |-> "WriteRef", index |-> index, val |-> val]
        /\ ret' = [err |-> Nil, panic |-> NoPanic, allocated |-> FALSE, val |-> Zero]
        /\ pre' = Vec
        /\ IF ref.shared
           THEN /\ data' = [data EXCEPT !.array[ref.off + index + 1] = val]
                /\ ref' = ref
           ELSE /\ data' = data
                /\ ref' = [ref EXCEPT !.array[ref.off + index + 1] = val]
        /\ UNCHANGED <<len, capacity, allocAmount>>

\* the caller keeps views and pointers into the vector
NextAlias ==
    \/ CallPushBack
    \/ CallSet
    \/ CallRemove
    \/ HoldData
    \/ HoldGet
    \/ WriteRef

SpecAlias == Init /\ [][NextAlias]_vars

\* the caller keeps the destination of Copy
NextCopy ==
    \/ CallPushBack
    \/ CallSet
    \/ CallRemove
    \/ HoldCopy
    \/ WriteRef

SpecCopy == Init /\ [][NextCopy]_vars

\* ---- the unchecked methods -----------------------------------------------
\* len has not gone below zero: keeps len within the bound of the model
StillCounted == len >= 0

CallGetUnchecked ==
    \E index \in IndexArgs :
        /\ op' = [name |-> "GetUnchecked", index |-> index]
        /\ Install(GetUnchecked(Vec, index))
        /\ ref' = Reheld(ref, Vec, "GetUnchecked", GetUnchecked(Vec, index))

CallSetUnchecked ==
    \E index \in IndexArgs, val \in Elem :
        /\ op' = [name |-> "SetUnchecked", index |-> index, val |-> val]
        /\ Install(SetUnchecked(Vec, index, val))
        /\ ref' = Reheld(ref, Vec, "SetUnchecked", SetUnchecked(Vec, index, val))

CallRemoveUnchecked ==
    \E index \in IndexArgs :
        /\ StillCounted
        /\ op' = [name |-> "RemoveUnchecked", index |-> index]
        /\ Install(RemoveUnchecked(Vec, index))
        /\ ref' = Reheld(ref, Vec, "RemoveUnchecked", RemoveUnchecked(Vec, index))

NextUnchecked ==
    \/ Next
    \/ CallGetUnchecked
    \/ CallSetUnchecked
    \/ CallRemoveUnchecked

SpecUnchecked == Init /\ [][NextUnchecked]_vars

\* ---- the search functions ------------------------------------------------
CallFind ==
    \E val \in Elem :
        /\ op' = [name |-> "Find", val |-> val]
        /\ Install(Find(Vec, val))
        /\ ref' = Reheld(ref, Vec, "Find", Find(Vec, val))

CallContains ==
    \E val \in Elem :
        /\ op' = [name |-> "Contains", val |-> val,
                  found |-> Contains(Vec, val).found]
        /\ Install(Panic(Vec, Contains(Vec, val).panic))
        /\ ref' = Reheld(ref, Vec, "Contains", Ok(Vec))

NextSearch ==
    \/ Next
    \/ CallFind
    \/ CallContains

SpecSearch == Init /\ [][NextSearch]_vars

\* ---- construction as a step ----------------------------------------------
\* The program starts without a vector and calls a constructor with any
\* arguments; a constructor that panics leaves it without one.
CtorCapacityArgs == -1..MaxInitLen

InitCtor ==
    /\ data = NoVector.data
    /\ len = NoVector.len
    /\ capacity = NoVector.capacity
    /\ allocAmount = NoVector.allocAmount
    /\ op = [name |-> "none"]
    /\ ret = [err |-> Nil, panic |-> NoPanic, allocated |-> FALSE, val |-> Zero]
    /\ pre = NoVector
    /\ ref = NoRef

InstallNew(r) ==
    /\ Vec = NoVector
    /\ data' = r.v.data
    /\ len' = r.v.len
    /\ capacity' = r.v.capacity
    /\ allocAmount' = r.v.allocAmount
    /\ ret' = [err |-> r.err, panic |-> r.panic, allocated |-> r.allocated,
               val |-> r.val]
    /\ pre' = r.v
    /\ ref' = NoRef

NewEmpty ==
    \E a \in AmountArgs :
        /\ op' = [name |-> "Empty", allocAmount |-> a]
        /\ InstallNew(Empty(a))

NewEmptyWithCapacity ==
    \E c \in CtorCapacityArgs, a \in AmountArgs :
        /\ op' = [name |-> "EmptyWithCapacity", capacity |-> c, allocAmount |-> a]
        /\ InstallNew(EmptyWithCapacity(c, a))

NewFromSlice ==
    \E s \in SliceArgs, a \in AmountArgs :
        /\ op' = [name |-> "FromSlice", slice |-> s, allocAmount |-> a]
        /\ InstallNew(FromSlice(SliceOf(s), a))

UseVector ==
    /\ Vec # NoVector
    /\ Next

NextCtor ==
    \/ NewEmpty
    \/ NewEmptyWithCapacity
    \/ NewFromSlice
    \/ UseVector

SpecCtor == InitCtor /\ [][NextCtor]_vars

\* ---- properties ----------------------------------------------------------
\* the last call returned normally and without an error
Succeeded == ret.err = Nil /\ ret.panic = NoPanic

\* the last call returned the index-out-of-bounds error and changed nothing
RejectedUnchanged == ret.err = OutOfBounds /\ ret.panic = NoPanic /\ Vec = pre

InsertingCalls == {"PushBack", "PushFront", "Insert"}

\* C1: after construction and after every call of SetAllocAmount, AddCapacity,
\* PushBack, PushFront, Insert, Get, Set, Copy, Data and Remove, whether it
\* succeeded or failed, 0 <= Len() <= Capacity().
C1_LenWithinCapacity == 0 <= len /\ len <= capacity

\* a full vector that lost an element: len and capacity went down together
C1_Witness ==
    /\ op.name = "Remove" /\ Succeeded
    /\ pre.len = pre.capacity /\ len = capacity /\ len > 0

\* C2 (as claimed): Insert(index, value) succeeds for every index with
\* 0 <= index <= Len(), the append position index = Len() included, and
\* returns the index-out-of-bounds error only for index < 0 or index > Len().
C2_InsertAcceptsAppendPosition ==
    op.name = "Insert" =>
        /\ ret.panic = NoPanic
        /\ ret.err = (IF 0 <= op.index /\ op.index <= pre.len THEN Nil
                      ELSE OutOfBounds)

\* C3 (as claimed): PushFront(value) cannot fail, not even on a vector with
\* Len() = 0: afterwards Len() is one more, value is at index 0 and the
\* previous live elements follow in their previous order.
C3_PushFrontCannotFail ==
    op.name = "PushFront" =>
        /\ Succeeded
        /\ len = pre.len + 1
        /\ Live(Vec) = <<op.val>> \o Live(pre)

\* C4: PushBack(value) cannot fail: afterwards Len() is one more, value is
\* at index old Len(), and every element below old Len() is unchanged.
C4_PushBackAppends ==
    op.name = "PushBack" =>
        /\ Succeeded
        /\ len = pre.len + 1
        /\ InRange(data, pre.len) /\ At(data, pre.len) = op.val
        /\ \A p \in 0..(pre.len - 1) : At(data, p) = At(pre.data, p)

\* a push onto a full, non-empty vector: the elements survive the growth
C4_Witness ==
    /\ op.name = "PushBack" /\ Succeeded
    /\ pre.len = pre.capacity /\ pre.len >= 2
    /\ At(pre.data, 0) # Zero /\ At(pre.data, 1) # Zero

\* C5: a successful PushBack, PushFront or Insert returns true exactly when
\* Len() = Capacity() held at the start; then Capacity() afterwards is the
\* old capacity plus AllocAmount(), and otherwise Capacity() is unchanged.
C5_GrowthIffFull ==
    (op.name \in InsertingCalls /\ Succeeded) =>
        /\ ret.allocated = (pre.len = pre.capacity)
        /\ capacity = (IF ret.allocated THEN pre.capacity + pre.allocAmount
                       ELSE pre.capacity)

\* a growth by an increment other than 1
C5_Witness ==
    /\ op.name \in InsertingCalls /\ Succeeded
    /\ ret.allocated /\ pre.allocAmount > 1 /\ pre.capacity > 0

\* C6: a successful Insert(index, value) increases Len() by exactly 1, puts
\* value at index, leaves the elements below index where they were and moves
\* every previously live element at p >= index to p + 1.
C6_InsertShiftsRight ==
    (op.name = "Insert" /\ Succeeded) =>
        /\ len = pre.len + 1
        /\ At(data, op.index) = op.val
        /\ \A p \in 0..(pre.len - 1) :
              IF p < op.index THEN At(data, p) = At(pre.data, p)
              ELSE At(data, p + 1) = At(pre.data, p)

\* an insertion strictly inside, between two different elements
C6_Witness ==
    /\ op.name = "Insert" /\ Succeeded
    /\ op.index = 1 /\ pre.len >= 2
    /\ At(pre.data, 0) # At(pre.data, 1) /\ At(pre.data, 1) # op.val

\* C7: Remove(index) with 0 <= index < Len() returns the element that was at
\* index, decreases Len() and Capacity() by exactly 1 each, leaves the
\* elements below index where they were and moves every live element at
\* p > index to p - 1.
C7_RemoveShiftsLeft ==
    (op.name = "Remove" /\ 0 <= op.index /\ op.index < pre.len) =>
        /\ Succeeded
        /\ ret.val = At(pre.data, op.index)
        /\ len = pre.len - 1
        /\ capacity = pre.capacity - 1
        /\ \A p \in 0..(pre.len - 1) :
              /\ p < op.index => At(data, p) = At(pre.data, p)
              /\ p > op.index => At(data, p - 1) = At(pre.data, p)

\* a removal strictly inside, with different elements on both sides
C7_Witness ==
    /\ op.name = "Remove" /\ Succeeded
    /\ op.index = 1 /\ pre.len >= 3
    /\ At(pre.data, 0) # At(pre.data, 1) /\ At(pre.data, 1) # At(pre.data, 2)

\* C8: Get, Set and Remove with index < 0 or index >= Len(), and Insert with
\* index < 0 or index > Len(), return the index-out-of-bounds error and leave
\* Len(), Capacity(), AllocAmount() and every element unchanged.
C8_OutOfBoundsIsNoOp ==
    /\ (op.name \in {"Get", "Set", "Remove"}
            /\ (op.index < 0 \/ op.index >= pre.len)) => RejectedUnchanged
    /\ (op.name = "Insert"
            /\ (op.index < 0 \/ op.index > pre.len)) => RejectedUnchanged

\* a Set just past the last element of a vector with spare capacity
C8_Witness ==
    /\ op.name = "Set" /\ op.index = pre.len /\ pre.len < pre.capacity
    /\ pre.len > 0 /\ op.val # Zero /\ ret.err = OutOfBounds

\* C9: for 0 <= i < Len(), Set(i, v) succeeds, Get(i) right afterwards
\* returns v, and Len(), Capacity(), AllocAmount() and every element at
\* another index are unchanged.
C9_SetThenGet ==
    (op.name = "Set" /\ 0 <= op.index /\ op.index < pre.len) =>
        /\ Succeeded
        /\ Get(Vec, op.index).err = Nil
        /\ Get(Vec, op.index).panic = NoPanic
        /\ Get(Vec, op.index).val = op.val
        /\ len = pre.len /\ capacity = pre.capacity
        /\ allocAmount = pre.allocAmount
        /\ data.len = pre.data.len
        /\ \A p \in 0..(pre.data.len - 1) :
              p # op.index => At(data, p) = At(pre.data, p)

\* a Set that changes a slot after the first of several
C9_Witness ==
    /\ op.name = "Set" /\ Succeeded
    /\ op.index > 0 /\ pre.len >= 2
    /\ At(pre.data, op.index) # op.val /\ At(pre.data, 0) # op.val

\* C10: after a successful Insert(index, v), Remove(index) called next
\* succeeds, returns v, and brings Len() and the sequence of live elements
\* back to what they were before the Insert.
C10_InsertRemoveRoundTrip ==
    (op.name = "Insert" /\ Succeeded) =>
        /\ Remove(Vec, op.index).err = Nil
        /\ Remove(Vec, op.index).panic = NoPanic
        /\ Remove(Vec, op.index).val = op.val
        /\ Remove(Vec, op.index).v.len = pre.len
        /\ Live(Remove(Vec, op.index).v) = Live(pre)

\* an insertion that grew the vector, in front of a different element
C10_Witness ==
    /\ op.name = "Insert" /\ Succeeded /\ ret.allocated
    /\ pre.len >= 2 /\ op.index < pre.len - 1
    /\ At(pre.data, op.index) # op.val
    /\ At(pre.data, pre.len - 1) # At(pre.data, pre.len - 2)

\* C11: AddCapacity(amount) with amount > 0 sets Capacity() to the old
\* capacity plus amount and leaves Len() and the live elements as they were;
\* with amount <= 0 it returns an error and leaves Len(), Capacity() and all
\* elements unchanged.
C11_AddCapacity ==
    op.name = "AddCapacity" =>
        IF op.amount > 0
        THEN /\ Succeeded
             /\ capacity = pre.capacity + op.amount
             /\ len = pre.len
             /\ Live(Vec) = Live(pre)
        ELSE /\ ret.err = CannotAddAmount /\ ret.panic = NoPanic
             /\ Vec = pre

\* capacity added to a vector that holds non-zero elements
C11_Witness ==
    /\ op.name = "AddCapacity" /\ Succeeded /\ op.amount = 2
    /\ pre.len >= 1 /\ At(pre.data, 0) # Zero

\* C12: AllocAmount() > 0 in every reachable state: SetAllocAmount(v) with
\* v <= 0 returns an error and leaves the increment unchanged, with v > 0 it
\* sets it to v, and no other method changes it.
C12_AllocAmountPositive ==
    /\ allocAmount > 0
    /\ op.name = "SetAllocAmount" =>
          IF op.newVal > 0
          THEN Succeeded /\ allocAmount = op.newVal
          ELSE /\ ret.err = InvalidAllocAmount /\ ret.panic = NoPanic
               /\ allocAmount = pre.allocAmount
    /\ op.name # "SetAllocAmount" => allocAmount = pre.allocAmount

\* the increment was changed to another value
C12_Witness ==
    /\ op.name = "SetAllocAmount" /\ Succeeded
    /\ op.newVal # pre.allocAmount /\ pre.len > 0

Constructors == {"Empty", "EmptyWithCapacity", "FromSlice"}

\* C13: right after a valid construction, Empty(g) has Len() = Capacity() = 0,
\* EmptyWithCapacity(c, g) has Len() = 0 and Capacity() = c, FromSlice(s, g)
\* has Len() = Capacity() = len(s) and the live elements are s in order, and
\* in all three AllocAmount() = g.
C13_AfterConstruction ==
    (op.name \in Constructors /\ ret.panic = NoPanic) =>
        /\ allocAmount = op.allocAmount
        /\ op.name = "Empty" => len = 0 /\ capacity = 0
        /\ op.name = "EmptyWithCapacity" => len = 0 /\ capacity = op.capacity
        /\ op.name = "FromSlice" =>
              /\ len = Len(op.slice) /\ capacity = Len(op.slice)
              /\ Live(Vec) = op.slice

\* a vector made with spare capacity
C13_Witness ==
    /\ op.name = "EmptyWithCapacity" /\ ret.panic = NoPanic
    /\ op.capacity > 0 /\ op.allocAmount > 1

\* C14 (as claimed): every constructor called with allocAmount <= 0 fails
\* with InvalidAllocAmount and yields no vector, and EmptyWithCapacity called
\* with a negative capacity is rejected with that same failure.
C14_InvalidConstruction ==
    (op.name \in Constructors
        /\ (op.allocAmount <= 0
              \/ (op.name = "EmptyWithCapacity" /\ op.capacity < 0))) =>
        /\ ret.panic = InvalidAllocAmount
        /\ Vec = NoVector

\* Copy(dst) succeeded, left the vector alone, returned min(Len(), len(dst))
\* and dst holds that many live elements in order, then what it held before
CopyResult ==
    op.name = "Copy" =>
        /\ Succeeded /\ Vec = pre
        /\ ret.val = Min(pre.len, Len(op.dst))
        /\ ref.kind = "dst" /\ ~ref.shared
        /\ RefElems(ref) = [k \in 1..Len(op.dst) |->
                              IF k <= ret.val THEN Live(pre)[k] ELSE op.dst[k]]

\* a write to dst left the vector as it was
DstWriteLeavesVector ==
    (op.name = "WriteRef" /\ ref.kind = "dst") => Vec = pre

\* a method call on the vector leaves dst as it was
VectorCallLeavesDst ==
    (ref.kind = "dst" /\ op'.name \notin {"Copy", "WriteRef"}) =>
        /\ ref'.kind = "dst"
        /\ RefElems(ref)' = RefElems(ref)

\* C15: Copy(dst) writes the first min(Len(), len(dst)) live elements into
\* dst in order, returns that count and leaves the vector unchanged; dst is
\* independent afterwards: writes to dst do not change the vector and
\* vector mutations do not change dst.
C15_CopyIsIndependent ==
    [][CopyResult' /\ DstWriteLeavesVector' /\ VectorCallLeavesDst]_vars

\* a copy of one element into a longer dst, from a vector with a spare slot
C15_Witness ==
    /\ op.name = "Copy" /\ Succeeded
    /\ ret.val = 1 /\ Len(op.dst) = 2
    /\ pre.capacity > pre.len /\ At(pre.data, 0) # MaxVal

\* C16: Data() returns a view of exactly the Len() live elements on the
\* backing array of the vector and Get(i) a pointer to slot i; as long as no
\* growth, Insert or Remove has run since, a write through either is what
\* Get and Data on the vector show afterwards.
C16_ViewsAlias ==
    /\ (op.name = "Data" /\ Succeeded) =>
          /\ ref.kind = "view" /\ ref.off = 0 /\ ref.len = len
          /\ RefElems(ref) = Live(Vec)
    /\ (op.name = "Get" /\ Succeeded) =>
          /\ ref.kind = "ptr" /\ ref.off = op.index
          /\ RefElems(ref) = <<ret.val>>
    /\ ref.kind \in {"view", "ptr"} => ref.shared
    /\ (op.name = "WriteRef" /\ ref.kind \in {"view", "ptr"}) =>
          /\ Get(Vec, ref.off + op.index).err = Nil
          /\ Get(Vec, ref.off + op.index).panic = NoPanic
          /\ Get(Vec, ref.off + op.index).val = op.val
          /\ ref.off + op.index < Data(Vec).v.len
          /\ At(Data(Vec).v.data, ref.off + op.index) = op.val

\* a write through a view taken before a push into spare capacity
C16_Witness ==
    /\ op.name = "WriteRef" /\ ref.kind = "view"
    /\ len > ref.len /\ ref.len >= 1
    /\ At(pre.data, op.index) # op.val

\* C17 (as claimed): RemoveUnchecked(index) and GetUnchecked(index) panic
\* whenever IsInBounds(index) is false (index < 0 or index >= Len()); for
\* such an index they never return normally and RemoveUnchecked never
\* changes Len() or Capacity().
C17_UncheckedPanicOutOfBounds ==
    (op.name \in {"RemoveUnchecked", "GetUnchecked"}
        /\ ~IsInBounds(pre, op.index)) =>
        /\ ret.panic # NoPanic
        /\ len = pre.len
        /\ capacity = pre.capacity

\* the smallest index below Len() whose element is val, or -1
FirstIndex(v, val) ==
    IF \E i \in 0..(v.len - 1) : At(v.data, i) = val
    THEN CHOOSE i \in 0..(v.len - 1) :
            /\ At(v.data, i) = val
            /\ \A j \in 0..(i - 1) : At(v.data, j) # val
    ELSE -1

\* C18: Find(v, val) returns the smallest index i in [0, Len()) whose element
\* equals val, or -1 when no live element equals val (slots at or beyond
\* Len() never match), and Contains(v, val) is true exactly when
\* Find(v, val) is not -1.
C18_FindContains ==
    /\ op.name = "Find" =>
          /\ Succeeded /\ Vec = pre
          /\ ret.val = FirstIndex(pre, op.val)
    /\ op.name = "Contains" =>
          /\ Succeeded /\ Vec = pre
          /\ op.found = (Find(pre, op.val).val # -1)

\* a search for the zero value in a vector whose spare slots hold it
C18_Witness ==
    /\ op.name = "Find" /\ op.val = Zero /\ ret.val = -1
    /\ len >= 1 /\ len < capacity

\* C19: after construction and after every method call, the slice v.data has
\* exactly Capacity() slots, so data[len] in PushBack and data[i] in Insert
\* never index outside it.
C19_SlotsEqualCapacity ==
    /\ data.len = capacity
    /\ ret.panic \notin {IndexOutOfRange, SliceOutOfRange}

\* a push into spare capacity after a removal shrank the slice
C19_Witness ==
    /\ op.name = "PushBack" /\ Succeeded /\ ~ret.allocated
    /\ Len(pre.data.array) > pre.capacity

\* a successful Remove leaves Capacity() - Len() as it was
RemoveKeepsSlack ==
    (op.name = "Remove" /\ Succeeded) =>
        capacity - len = pre.capacity - pre.len

\* the call made right after a successful Remove, when it is a PushBack, a
\* PushFront or an Insert at a position in 0..Len(), reports growth exactly
\* when the vector was full before that Remove
GrowthAfterRemove ==
    (/\ op.name = "Remove" /\ Succeeded
     /\ op'.name \in InsertingCalls
     /\ op'.name = "Insert" => (0 <= op'.index /\ op'.index <= len))
    => (ret'.allocated = (pre.len = pre.capacity))

\* C20 (as claimed): a successful Remove leaves the free slack unchanged, so
\* a PushBack, PushFront or Insert that directly follows it triggers growth
\* if and only if the vector was full right before that Remove.
C20_GrowthAfterRemoveIffFull == [][RemoveKeepsSlack' /\ GrowthAfterRemove]_vars

====
